---- MODULE Spec2Model ----
(***************************************************************************)
(* The explicit-list allocator of el_malloc.c: one fixed heap region cut   *)
(* into boundary-tagged blocks [head | payload | foot], two intrusive      *)
(* doubly linked lists (available, used) with sentinel nodes, first-fit    *)
(* search, split on allocation and coalescing on release.                  *)
(*                                                                         *)
(* Memory is modelled as what the code writes: `head` maps an address to   *)
(* the el_blockhead_t stored there, `foot` maps an address to the size     *)
(* stored in the el_blockfoot_t there.  An address never written reads as  *)
(* zero (the region is an anonymous mapping).  The footer and the header   *)
(* that a merge absorbs become payload bytes of the merged block; payload  *)
(* content is not allocator state, and the model forgets the two records   *)
(* at the end of the merge (they read as zero from then on).               *)
(***************************************************************************)
EXTENDS Integers, Sequences, FiniteSets, TLC

\* ---------------------------------------------------------------- constants
\* Width of size_t and of an address in the model: arithmetic is modulo SizeMod.
SizeMod == 65536
\* Sizes of the region and of the block metadata, in bytes.
EL_HEAP_INITIAL_SIZE == 4096
\* Stand-in for 0x600000000000: the start of the mapping (any non-NULL
\* address above the sentinel nodes of el_ctl works, all arithmetic is
\* relative to it).
EL_HEAP_START_ADDRESS == 4096
HEAD_SIZE == 32
FOOT_SIZE == 8
EL_BLOCK_OVERHEAD == HEAD_SIZE + FOOT_SIZE

NULL == 0
EL_AVAILABLE == "a"
EL_USED == "u"
EL_BEGIN_BLOCK == "B"
EL_END_BLOCK == "E"
\* (size_t) -1: the size field of a sentinel node.
EL_UNINITIALIZED == SizeMod - 1

\* Addresses of the four sentinel nodes, which live in el_ctl (outside the
\* heap region): avail_actual.beg_actual, avail_actual.end_actual,
\* used_actual.beg_actual, used_actual.end_actual.
AVAIL_BEG == 1
AVAIL_END == 2
USED_BEG == 3
USED_END == 4

\* ------------------------------------------------------------------- bounds
\* At most MaxUsed allocations are outstanding at a time.
MaxUsed == 4
\* The caller makes at most MaxCalls calls after el_init().
MaxCalls == 7
\* The request sizes the caller draws from.
Requests == {50, 64, 128, 1724, 4057}

Wrap(x) == x % SizeMod

\* -------------------------------------------------------------- raw memory
ZeroHead == [size |-> 0, state |-> "0", next |-> NULL, prev |-> NULL]

RdHead(h, a) == IF a \in DOMAIN h.head THEN h.head[a] ELSE ZeroHead
RdFoot(h, a) == IF a \in DOMAIN h.foot THEN h.foot[a] ELSE 0

\* A write of one field: to the record stored at a, or to zeroed memory.
SetSize(h, a, v) ==
    IF a \in DOMAIN h.head
    THEN [h EXCEPT !.head[a].size = v]
    ELSE [h EXCEPT !.head = (a :> [ZeroHead EXCEPT !.size = v]) @@ h.head]
SetState(h, a, v) ==
    IF a \in DOMAIN h.head
    THEN [h EXCEPT !.head[a].state = v]
    ELSE [h EXCEPT !.head = (a :> [ZeroHead EXCEPT !.state = v]) @@ h.head]
SetNext(h, a, v) ==
    IF a \in DOMAIN h.head
    THEN [h EXCEPT !.head[a].next = v]
    ELSE [h EXCEPT !.head = (a :> [ZeroHead EXCEPT !.next = v]) @@ h.head]
SetPrev(h, a, v) ==
    IF a \in DOMAIN h.head
    THEN [h EXCEPT !.head[a].prev = v]
    ELSE [h EXCEPT !.head = (a :> [ZeroHead EXCEPT !.prev = v]) @@ h.head]
SetFoot(h, a, v) ==
    IF a \in DOMAIN h.foot
    THEN [h EXCEPT !.foot[a] = v]
    ELSE [h EXCEPT !.foot = (a :> v) @@ h.foot]
\* Metadata turned into payload bytes: the records at head address a and at
\* foot address f are no longer part of the state.
Absorb(h, a, f) ==
    [h EXCEPT !.head = [x \in DOMAIN h.head \ {a} |-> h.head[x]],
              !.foot = [x \in DOMAIN h.foot \ {f} |-> h.foot[x]]]

\* list is "avail" or "used": el_ctl.avail / el_ctl.used
ListBeg(list) == IF list = "avail" THEN AVAIL_BEG ELSE USED_BEG
ListEnd(list) == IF list = "avail" THEN AVAIL_END ELSE USED_END

\* ------------------------------------------------------- pointer arithmetic
el_get_footer(h, head_) == Wrap(head_ + HEAD_SIZE + RdHead(h, head_).size)

el_get_header(h, foot_) == Wrap(foot_ - (HEAD_SIZE + RdFoot(h, foot_)))

el_block_above(h, block) ==
    LET higher == Wrap(block + RdHead(h, block).size + EL_BLOCK_OVERHEAD)
    IN  IF higher >= h.heap_end THEN NULL ELSE higher

\* el_block_below that steps back by the size of a header, not of a footer.
el_block_below_header_step(h, block) ==
    IF block # h.heap_start
    THEN el_get_header(h, Wrap(block - HEAD_SIZE))
    ELSE NULL

el_block_below(h, block) ==
    IF block # h.heap_start
    THEN el_get_header(h, Wrap(block - FOOT_SIZE))
    ELSE NULL

\* ------------------------------------------------------ block list operations
el_init_blocklist(h, list) ==
    LET beg == ListBeg(list)
        end == ListEnd(list)
        h1 == SetSize(SetState(h, beg, EL_BEGIN_BLOCK), beg, EL_UNINITIALIZED)
        h2 == SetSize(SetState(h1, end, EL_END_BLOCK), end, EL_UNINITIALIZED)
        h3 == SetPrev(SetNext(h2, beg, end), beg, NULL)
        h4 == SetPrev(SetNext(h3, end, NULL), end, beg)
    IN  [h4 EXCEPT ![list] = [length |-> 0, bytes |-> 0]]

\* el_add_block_front that counts the payload only, not the overhead.
el_add_block_front_payload_only(h, list, block) ==
    LET beg == ListBeg(list)
        h1 == SetNext(h, block, RdHead(h, beg).next)
        h2 == SetPrev(h1, block, beg)
        h3 == SetPrev(h2, RdHead(h2, block).next, block)
        h4 == SetNext(h3, RdHead(h3, block).prev, block)
    IN  [h4 EXCEPT ![list] =
            [length |-> Wrap(h4[list].length + 1),
             bytes  |-> Wrap(h4[list].bytes + RdHead(h4, block).size)]]

el_add_block_front(h, list, block) ==
    LET beg == ListBeg(list)
        h1 == SetNext(h, block, RdHead(h, beg).next)
        h2 == SetPrev(h1, block, beg)
        h3 == SetPrev(h2, RdHead(h2, block).next, block)
        h4 == SetNext(h3, RdHead(h3, block).prev, block)
    IN  [h4 EXCEPT ![list] =
            [length |-> Wrap(h4[list].length + 1),
             bytes  |-> Wrap(h4[list].bytes + RdHead(h4, block).size + EL_BLOCK_OVERHEAD)]]

el_remove_block(h, list, block) ==
    LET h1 == SetNext(h, RdHead(h, block).prev, RdHead(h, block).next)
        h2 == SetPrev(h1, RdHead(h1, block).next, RdHead(h1, block).prev)
    IN  [h2 EXCEPT ![list] =
            [length |-> Wrap(h2[list].length - 1),
             bytes  |-> Wrap(h2[list].bytes - (RdHead(h2, block).size + EL_BLOCK_OVERHEAD))]]

\* ------------------------------------------------------------ initialization
\* The el_ctl and memory before el_init(): nothing mapped, nothing set.
Blank ==
    [heap_bytes |-> 0, heap_start |-> NULL, heap_end |-> NULL,
     avail |-> [length |-> 0, bytes |-> 0],
     used  |-> [length |-> 0, bytes |-> 0],
     head  |-> <<>>, foot |-> <<>>]

\* el_init that gives the first block the whole region as its payload.
el_init_whole_region(bytes) ==
    LET h0 == [Blank EXCEPT !.heap_bytes = bytes,
                            !.heap_start = EL_HEAP_START_ADDRESS,
                            !.heap_end = EL_HEAP_START_ADDRESS + bytes]
    IN  IF bytes < EL_BLOCK_OVERHEAD
        THEN [h |-> h0, ret |-> 0 - 1]
        ELSE LET h1 == el_init_blocklist(el_init_blocklist(h0, "avail"), "used")
                 size == h1.heap_bytes
                 ablock == h1.heap_start
                 h2 == SetState(SetSize(h1, ablock, size), ablock, EL_AVAILABLE)
                 h3 == SetFoot(h2, el_get_footer(h2, ablock), size)
             IN  [h |-> el_add_block_front(h3, "avail", ablock), ret |-> 0]

\* el_init() for a configured region of `bytes` bytes: [h, ret].
el_init(bytes) ==
    LET h0 == [Blank EXCEPT !.heap_bytes = bytes,
                            !.heap_start = EL_HEAP_START_ADDRESS,
                            !.heap_end = EL_HEAP_START_ADDRESS + bytes]
    IN  IF bytes < EL_BLOCK_OVERHEAD
        THEN [h |-> h0, ret |-> 0 - 1]
        ELSE LET h1 == el_init_blocklist(el_init_blocklist(h0, "avail"), "used")
                 size == h1.heap_bytes - EL_BLOCK_OVERHEAD
                 ablock == h1.heap_start
                 h2 == SetState(SetSize(h1, ablock, size), ablock, EL_AVAILABLE)
                 h3 == SetFoot(h2, el_get_footer(h2, ablock), size)
             IN  [h |-> el_add_block_front(h3, "avail", ablock), ret |-> 0]

\* ------------------------------------------------------------- allocation
\* A search that walks the available list from its back to its front.
RECURSIVE back_scan(_, _, _)
back_scan(h, current, size) ==
    IF current = ListBeg("avail")
    THEN NULL
    ELSE IF RdHead(h, current).size >= Wrap(size + EL_BLOCK_OVERHEAD)
         THEN current
         ELSE back_scan(h, RdHead(h, current).prev, size)

find_scan_from_back(h, current, size) ==
    back_scan(h, RdHead(h, ListEnd("avail")).prev, size)

\* A search that asks for the requested size only, without the overhead.
RECURSIVE find_scan_no_overhead(_, _, _)
find_scan_no_overhead(h, current, size) ==
    IF current = ListEnd("avail")
    THEN NULL
    ELSE IF RdHead(h, current).size >= size
         THEN current
         ELSE find_scan_no_overhead(h, RdHead(h, current).next, size)

\* The loop of el_find_first_avail, from `current` on.
RECURSIVE find_scan(_, _, _)
find_scan(h, current, size) ==
    IF current = ListEnd("avail")
    THEN NULL
    ELSE IF RdHead(h, current).size >= Wrap(size + EL_BLOCK_OVERHEAD)
         THEN current
         ELSE find_scan(h, RdHead(h, current).next, size)

\* A search that hands back the last block it looked at when none fits.
el_find_first_avail_last_seen(h, size) ==
    LET r == find_scan(h, RdHead(h, ListBeg("avail")).next, size)
    IN  IF r = NULL THEN RdHead(h, ListEnd("avail")).prev ELSE r

el_find_first_avail(h, size) ==
    find_scan(h, RdHead(h, ListBeg("avail")).next, size)

\* el_split_block that gives the new block all that is left of the payload,
\* without taking the second header and footer off it.
el_split_block_no_overhead(h, block, new_size) ==
    LET original == RdHead(h, block).size
    IN  IF RdHead(h, block).size < Wrap(new_size + EL_BLOCK_OVERHEAD)
        THEN [h |-> h, ret |-> NULL]
        ELSE LET h1 == SetSize(h, block, new_size)
                 h2 == SetFoot(h1, el_get_footer(h1, block), new_size)
                 new_block == el_block_above(h2, block)
                 rest == Wrap(original - new_size)
                 h3 == SetSize(h2, new_block, rest)
                 h4 == SetFoot(h3, el_get_footer(h3, new_block), rest)
             IN  [h |-> h4, ret |-> new_block]

\* el_split_block that refuses a block of exactly new_size + overhead bytes.
el_split_block_strict(h, block, new_size) ==
    LET original == RdHead(h, block).size
    IN  IF RdHead(h, block).size <= Wrap(new_size + EL_BLOCK_OVERHEAD)
        THEN [h |-> h, ret |-> NULL]
        ELSE LET h1 == SetSize(h, block, new_size)
                 h2 == SetFoot(h1, el_get_footer(h1, block), new_size)
                 new_block == el_block_above(h2, block)
                 rest == Wrap(original - new_size - EL_BLOCK_OVERHEAD)
                 h3 == SetSize(h2, new_block, rest)
                 h4 == SetFoot(h3, el_get_footer(h3, new_block), rest)
             IN  [h |-> h4, ret |-> new_block]

\* el_split_block that leaves out the footer of the shrunk block.
el_split_block_stale_foot(h, block, new_size) ==
    LET original == RdHead(h, block).size
    IN  IF RdHead(h, block).size < Wrap(new_size + EL_BLOCK_OVERHEAD)
        THEN [h |-> h, ret |-> NULL]
        ELSE LET h1 == SetSize(h, block, new_size)
                 new_block == el_block_above(h1, block)
                 rest == Wrap(original - new_size - EL_BLOCK_OVERHEAD)
                 h3 == SetSize(h1, new_block, rest)
                 h4 == SetFoot(h3, el_get_footer(h3, new_block), rest)
             IN  [h |-> h4, ret |-> new_block]

\* [h, ret]: ret is the new block, or NULL when the block is too small.
el_split_block(h, block, new_size) ==
    LET original == RdHead(h, block).size
    IN  IF RdHead(h, block).size < Wrap(new_size + EL_BLOCK_OVERHEAD)
        THEN [h |-> h, ret |-> NULL]
        ELSE LET h1 == SetSize(h, block, new_size)
                 h2 == SetFoot(h1, el_get_footer(h1, block), new_size)
                 new_block == el_block_above(h2, block)
                 rest == Wrap(original - new_size - EL_BLOCK_OVERHEAD)
                 h3 == SetSize(h2, new_block, rest)
                 h4 == SetFoot(h3, el_get_footer(h3, new_block), rest)
             IN  [h |-> h4, ret |-> new_block]

\* el_malloc that hands out the address of the block header.
el_malloc_returns_header(h, nbytes) ==
    LET block == el_find_first_avail(h, nbytes)
    IN  IF block = NULL
        THEN [h |-> h, ret |-> NULL, found |-> NULL, split |-> NULL]
        ELSE LET h1 == el_remove_block(h, "avail", block)
                 sp == el_split_block(h1, block, nbytes)
                 allocated_block == sp.ret
             IN  IF allocated_block # NULL
                 THEN LET h2 == SetState(sp.h, block, EL_USED)
                          h3 == el_add_block_front(h2, "used", block)
                          h4 == SetState(h3, allocated_block, EL_AVAILABLE)
                          h5 == el_add_block_front(h4, "avail", allocated_block)
                      IN  [h |-> h5, ret |-> block,
                           found |-> block, split |-> allocated_block]
                 ELSE [h |-> el_add_block_front(sp.h, "avail", block), ret |-> NULL,
                       found |-> block, split |-> NULL]

\* [h, ret, found, split]: ret is the pointer handed to the caller (NULL for
\* none); found is the block el_find_first_avail returned and split what
\* el_split_block returned (both NULL when not reached).
el_malloc(h, nbytes) ==
    LET block == el_find_first_avail(h, nbytes)
    IN  IF block = NULL
        THEN [h |-> h, ret |-> NULL, found |-> NULL, split |-> NULL]
        ELSE LET h1 == el_remove_block(h, "avail", block)
                 sp == el_split_block(h1, block, nbytes)
                 allocated_block == sp.ret
             IN  IF allocated_block # NULL
                 THEN LET h2 == SetState(sp.h, block, EL_USED)
                          h3 == el_add_block_front(h2, "used", block)
                          h4 == SetState(h3, allocated_block, EL_AVAILABLE)
                          h5 == el_add_block_front(h4, "avail", allocated_block)
                      IN  [h |-> h5, ret |-> Wrap(block + HEAD_SIZE),
                           found |-> block, split |-> allocated_block]
                 ELSE [h |-> el_add_block_front(sp.h, "avail", block), ret |-> NULL,
                       found |-> block, split |-> NULL]

\* ----------------------------------------------------------- de-allocation
\* A merge that does not reclaim the overhead of the absorbed block.
el_merge_block_with_above_no_overhead(h, lower) ==
    IF lower = NULL \/ RdHead(h, lower).state # EL_AVAILABLE
    THEN h
    ELSE LET higher == el_block_above(h, lower)
         IN  IF higher = NULL \/ RdHead(h, higher).state # EL_AVAILABLE
             THEN h
             ELSE LET h1 == el_remove_block(h, "avail", lower)
                      h2 == el_remove_block(h1, "avail", higher)
                      new_size == Wrap(RdHead(h2, lower).size + RdHead(h2, higher).size)
                      lower_foot == el_get_footer(h2, lower)
                      h3 == SetSize(h2, lower, new_size)
                      h4 == SetFoot(h3, el_get_footer(h3, higher), new_size)
                      h5 == el_add_block_front(h4, "avail", lower)
                  IN  Absorb(h5, higher, lower_foot)

\* A merge that does not look at the state of the block above.
el_merge_block_with_above_any_state(h, lower) ==
    IF lower = NULL \/ RdHead(h, lower).state # EL_AVAILABLE
    THEN h
    ELSE LET higher == el_block_above(h, lower)
         IN  IF higher = NULL
             THEN h
             ELSE LET h1 == el_remove_block(h, "avail", lower)
                      h2 == el_remove_block(h1, "avail", higher)
                      new_size == Wrap(RdHead(h2, lower).size + RdHead(h2, higher).size
                                       + EL_BLOCK_OVERHEAD)
                      lower_foot == el_get_footer(h2, lower)
                      h3 == SetSize(h2, lower, new_size)
                      h4 == SetFoot(h3, el_get_footer(h3, higher), new_size)
                      h5 == el_add_block_front(h4, "avail", lower)
                  IN  Absorb(h5, higher, lower_foot)

el_merge_block_with_above(h, lower) ==
    IF lower = NULL \/ RdHead(h, lower).state # EL_AVAILABLE
    THEN h
    ELSE LET higher == el_block_above(h, lower)
         IN  IF higher = NULL \/ RdHead(h, higher).state # EL_AVAILABLE
             THEN h
             ELSE LET h1 == el_remove_block(h, "avail", lower)
                      h2 == el_remove_block(h1, "avail", higher)
                      new_size == Wrap(RdHead(h2, lower).size + RdHead(h2, higher).size
                                       + EL_BLOCK_OVERHEAD)
                      lower_foot == el_get_footer(h2, lower)
                      h3 == SetSize(h2, lower, new_size)
                      h4 == SetFoot(h3, el_get_footer(h3, higher), new_size)
                      h5 == el_add_block_front(h4, "avail", lower)
                  IN  Absorb(h5, higher, lower_foot)

\* el_free that merges with the block below only.
el_free_below_only(h, ptr) ==
    LET block == Wrap(ptr - HEAD_SIZE)
        h1 == el_remove_block(h, "used", block)
        h2 == SetState(h1, block, EL_AVAILABLE)
        h3 == el_add_block_front(h2, "avail", block)
    IN  el_merge_block_with_above(h3, el_block_below(h3, block))

\* el_free that merges with the block above only.
el_free_above_only(h, ptr) ==
    LET block == Wrap(ptr - HEAD_SIZE)
        h1 == el_remove_block(h, "used", block)
        h2 == SetState(h1, block, EL_AVAILABLE)
        h3 == el_add_block_front(h2, "avail", block)
    IN  el_merge_block_with_above(h3, block)

\* el_free that merges nothing.
el_free_no_merge(h, ptr) ==
    LET block == Wrap(ptr - HEAD_SIZE)
        h1 == el_remove_block(h, "used", block)
        h2 == SetState(h1, block, EL_AVAILABLE)
    IN  el_add_block_front(h2, "avail", block)

el_free(h, ptr) ==
    LET block == Wrap(ptr - HEAD_SIZE)
        h1 == el_remove_block(h, "used", block)
        h2 == SetState(h1, block, EL_AVAILABLE)
        h3 == el_add_block_front(h2, "avail", block)
        h4 == el_merge_block_with_above(h3, block)
    IN  el_merge_block_with_above(h4, el_block_below(h4, block))

\* munmap() of the region: its memory is gone, the sentinel nodes of el_ctl
\* stay, and the recorded bounds are cleared.
el_cleanup(h) ==
    [h EXCEPT !.head = [x \in DOMAIN h.head \cap {AVAIL_BEG, AVAIL_END, USED_BEG, USED_END}
                            |-> h.head[x]],
              !.foot = <<>>,
              !.heap_start = NULL,
              !.heap_end = NULL]

\* -------------------------------------------------------------------- state
\* heap: el_ctl and the memory it manages, now.
\* pre:  the same, as it was when the last call was made.
\* last: the last call of the caller: its name, argument and result.
\* live: the pointers el_malloc returned that the caller has not released.
\* calls: how many calls the caller has made since el_init().
VARIABLES heap, pre, last, live, calls
vars == <<heap, pre, last, live, calls>>

Init ==
    /\ heap = el_init(EL_HEAP_INITIAL_SIZE).h
    /\ pre = Blank
    /\ last = [op |-> "init", arg |-> 0, ret |-> el_init(EL_HEAP_INITIAL_SIZE).ret,
               found |-> NULL, split |-> NULL]
    /\ live = {}
    /\ calls = 0

\* p = el_malloc(n)
Malloc(n) ==
    /\ calls < MaxCalls
    /\ calls' = calls + 1
    /\ Cardinality(live) < MaxUsed
    /\ \E r \in {el_malloc(heap, n)} :
           /\ heap' = r.h
           /\ pre' = heap
           /\ last' = [op |-> "malloc", arg |-> n, ret |-> r.ret,
                       found |-> r.found, split |-> r.split]
           /\ live' = IF r.ret = NULL THEN live ELSE live \cup {r.ret}

\* el_free(p) of an outstanding pointer
Free(p) ==
    /\ calls < MaxCalls
    /\ calls' = calls + 1
    /\ heap' = el_free(heap, p)
    /\ pre' = heap
    /\ last' = [op |-> "free", arg |-> p, ret |-> 0, found |-> NULL, split |-> NULL]
    /\ live' = live \ {p}

\* p = el_malloc(n); el_free(p): a release right after the allocation
MallocFree(n) ==
    /\ calls + 1 < MaxCalls
    /\ calls' = calls + 2
    /\ Cardinality(live) < MaxUsed
    /\ \E r \in {el_malloc(heap, n)} :
           /\ r.ret # NULL
           /\ heap' = el_free(r.h, r.ret)
           /\ pre' = heap
           /\ last' = [op |-> "malloc_free", arg |-> n, ret |-> r.ret,
                       found |-> r.found, split |-> r.split]
           /\ live' = live

Next ==
    \/ \E n \in Requests : Malloc(n)
    \/ \E p \in live : Free(p)

Spec == Init /\ [][Next]_vars

\* The same caller, who may also release a pointer right after getting it.
NextRT ==
    \/ \E n \in Requests : Malloc(n)
    \/ \E p \in live : Free(p)
    \/ \E n \in Requests : MallocFree(n)

SpecRT == Init /\ [][NextRT]_vars

\* The caller ends the program with el_cleanup(); no call follows it.
Cleanup ==
    /\ heap.heap_start # NULL
    /\ heap' = el_cleanup(heap)
    /\ pre' = heap
    /\ last' = [op |-> "cleanup", arg |-> 0, ret |-> 0, found |-> NULL, split |-> NULL]
    /\ live' = {}
    /\ calls' = calls

NextLive ==
    \/ (heap.heap_start # NULL /\ Next)
    \/ Cleanup

\* Every call returns (the code has no loop that waits), and the caller is a
\* program that ends: after finitely many calls it makes its el_cleanup().
SpecLive == Init /\ [][NextLive]_vars /\ WF_vars(Cleanup)

\* ------------------------------------------- the caller, without the record
\* The calls of Spec, followed for the state they leave only: last keeps the
\* call and its argument, not its result, and pre is not recorded.
MallocQuiet(n) ==
    /\ calls < MaxCalls
    /\ calls' = calls + 1
    /\ Cardinality(live) < MaxUsed
    /\ \E r \in {el_malloc(heap, n)} :
           /\ heap' = r.h
           /\ live' = IF r.ret = NULL THEN live ELSE live \cup {r.ret}
    /\ last' = [op |-> "malloc", arg |-> n, ret |-> 0, found |-> NULL, split |-> NULL]
    /\ pre' = pre

FreeQuiet(p) ==
    /\ calls < MaxCalls
    /\ calls' = calls + 1
    /\ heap' = el_free(heap, p)
    /\ live' = live \ {p}
    /\ last' = [op |-> "free", arg |-> p, ret |-> 0, found |-> NULL, split |-> NULL]
    /\ pre' = pre

NextHeap ==
    \/ \E n \in Requests : MallocQuiet(n)
    \/ \E p \in live : FreeQuiet(p)

SpecHeap == Init /\ [][NextHeap]_vars

\* ----------------------------------------- requests of the whole size_t range
\* The sum size + EL_BLOCK_OVERHEAD of el_find_first_avail and el_split_block
\* does not fit size_t for this request: the code compares with its wrapped
\* value.
Overflows(n) == n + EL_BLOCK_OVERHEAD >= SizeMod

\* Requests near the top of size_t: the largest whose sum does not wrap, the
\* smallest whose sum wraps (to 0), and (size_t) -1.
WideRequests ==
    {SizeMod - EL_BLOCK_OVERHEAD - 1, SizeMod - EL_BLOCK_OVERHEAD, SizeMod - 1}

\* The el_ctl and memory when el_split_block is stopped at its first store
\* after `block->size = new_size`: el_malloc has unlinked the block, and the
\* footer store of line 270 goes to an address that is not the block's own.
split_fault(h, nbytes) ==
    LET block == el_find_first_avail(h, nbytes)
    IN  SetSize(el_remove_block(h, "avail", block), block, nbytes)

\* p = el_malloc(n) for any n.  When n + EL_BLOCK_OVERHEAD wraps and a block
\* is found, the stores of el_split_block land outside the block (misaligned
\* inside the region, or below heap_start): either they all go through, as
\* el_malloc() computes them, or the first of them stops the process.
MallocWide(n) ==
    /\ calls < MaxCalls
    /\ calls' = calls + 1
    /\ Cardinality(live) < MaxUsed
    /\ pre' = heap
    /\ \E r \in {el_malloc(heap, n)} :
           \/ /\ heap' = r.h
              /\ last' = [op |-> "malloc", arg |-> n, ret |-> r.ret,
                          found |-> r.found, split |-> r.split]
              /\ live' = IF r.ret = NULL THEN live ELSE live \cup {r.ret}
           \/ /\ Overflows(n)
              /\ r.found # NULL
              /\ heap' = split_fault(heap, n)
              /\ last' = [op |-> "fault", arg |-> n, ret |-> NULL,
                          found |-> r.found, split |-> NULL]
              /\ live' = live

\* The last call was an el_malloc whose sum wrapped and that found a block:
\* the process is stopped, or its memory holds overlapping records, and the
\* source does not determine what a further call does.
Wrapped ==
    \/ last.op = "fault"
    \/ (last.op = "malloc" /\ Overflows(last.arg) /\ last.found # NULL)

\* The caller of Spec, who may also ask for sizes near the top of size_t;
\* the model follows the program up to and including a wrapped request.
NextWide ==
    /\ ~Wrapped
    /\ \/ \E n \in Requests : Malloc(n)
       \/ \E p \in live : Free(p)
       \/ \E n \in WideRequests : MallocWide(n)

SpecWide == Init /\ [][NextWide]_vars

\* ------------------------------------------- el_init for any configured size
\* The region sizes EL_HEAP_INITIAL_SIZE is configured to: 1 .. MaxHeapBytes
\* and the size of the build.
MaxHeapBytes == 160
HeapSizes == (1 .. MaxHeapBytes) \cup {EL_HEAP_INITIAL_SIZE}

\* Before el_init(): el_ctl is zero (line 13), last.arg is the configured
\* EL_HEAP_INITIAL_SIZE.
InitConfigured ==
    /\ heap = Blank
    /\ pre = Blank
    /\ \E b \in HeapSizes :
           last = [op |-> "start", arg |-> b, ret |-> 0, found |-> NULL, split |-> NULL]
    /\ live = {}
    /\ calls = 0

\* el_init()
ElInit ==
    /\ last.op = "start"
    /\ \E r \in {el_init(last.arg)} :
           /\ heap' = r.h
           /\ last' = [last EXCEPT !.op = "init", !.ret = r.ret]
    /\ pre' = heap
    /\ UNCHANGED <<live, calls>>

NextInit == ElInit

SpecInit == InitConfigured /\ [][NextInit]_vars

\* ------------------------------------------------------ reading the state
\* The members of a list, front to back, following next from the begin
\* sentinel to the end sentinel; a walk that meets NULL or does not end
\* within `fuel` nodes ends with NULL.
RECURSIVE ListWalk(_, _, _, _)
ListWalk(h, current, end, fuel) ==
    IF current = end
    THEN <<>>
    ELSE IF fuel = 0 \/ current = NULL
         THEN <<NULL>>
         ELSE <<current>> \o ListWalk(h, RdHead(h, current).next, end, fuel - 1)

ListSeq(h, list) ==
    ListWalk(h, RdHead(h, ListBeg(list)).next, ListEnd(list), Cardinality(DOMAIN h.head))

\* The blocks in address order, from heap_start upwards by el_block_above.
RECURSIVE PhysWalk(_, _, _)
PhysWalk(h, block, fuel) ==
    IF block = NULL
    THEN <<>>
    ELSE IF fuel = 0
         THEN <<NULL>>
         ELSE <<block>> \o PhysWalk(h, el_block_above(h, block), fuel - 1)

PhysSeq(h) == PhysWalk(h, h.heap_start, h.heap_bytes \div EL_BLOCK_OVERHEAD + 1)

Range(q) == {q[i] : i \in DOMAIN q}
Count(q, x) == Cardinality({i \in DOMAIN q : q[i] = x})
Without(q, x) == SelectSeq(q, LAMBDA y : y # x)

SizeOf(h, b) == RdHead(h, b).size
StateOf(h, b) == RdHead(h, b).state
\* One past the last byte of block b: header + payload + footer.
EndOf(h, b) == b + EL_BLOCK_OVERHEAD + SizeOf(h, b)

RECURSIVE SumBytes(_, _)
SumBytes(h, q) ==
    IF q = <<>> THEN 0
    ELSE SizeOf(h, Head(q)) + EL_BLOCK_OVERHEAD + SumBytes(h, Tail(q))

AvailSeq == ListSeq(heap, "avail")
UsedSeq == ListSeq(heap, "used")
PreAvailSeq == ListSeq(pre, "avail")
PreUsedSeq == ListSeq(pre, "used")

\* n bytes can be carved out of block b: its payload holds n plus the
\* overhead of a second block.
Fits(h, b, n) == SizeOf(h, b) >= n + EL_BLOCK_OVERHEAD

\* The member of the list q of h closest to its front that fits n, or NULL.
FirstFit(h, q, n) ==
    LET idx == {i \in DOMAIN q : Fits(h, q[i], n)}
    IN  IF idx = {} THEN NULL ELSE q[CHOOSE i \in idx : \A j \in idx : i <= j]

SizesOf(h, q) == [i \in DOMAIN q |-> SizeOf(h, q[i])]

\* In the formulas below av, us and ph are the available list, the used list
\* and the blocks in address order now; pav, pus and pph are the same before
\* the last call.

\* ------------------------------------------------------------------ C1
ListConsistency(av, us, ph) ==
    /\ \A b \in Range(ph) :
          /\ b # NULL
          /\ Count(av, b) + Count(us, b) = 1
    /\ Range(av) \cup Range(us) = Range(ph)
    /\ \A b \in Range(av) : StateOf(heap, b) = EL_AVAILABLE
    /\ \A b \in Range(us) : StateOf(heap, b) = EL_USED
    /\ heap.avail.bytes = SumBytes(heap, av)
    /\ heap.used.bytes = SumBytes(heap, us)
    /\ heap.avail.length = Len(av)
    /\ heap.used.length = Len(us)

\* C1: in every state after el_init and any calls of el_malloc / el_free,
\* every block of the region is a member of exactly one of the two lists
\* (and is linked there once), every member of the available list has state
\* EL_AVAILABLE and every member of the used list has state EL_USED, each
\* list's bytes is the sum of (size + overhead) over its members and each
\* list's length is its number of members.
C1_ListConsistency == ListConsistency(AvailSeq, UsedSeq, PhysSeq(heap))

\* Both lists hold several blocks, after allocations and a release that
\* merged nothing.
C1_Witness ==
    /\ last.op = "free"
    /\ Len(AvailSeq) >= 2
    /\ Len(UsedSeq) >= 2
    /\ Len(PhysSeq(heap)) = Len(PhysSeq(pre))

\* ------------------------------------------------------------------ C2
Tiling(blocks, all) ==
    /\ \A b \in blocks : heap.heap_start <= b /\ EndOf(heap, b) <= heap.heap_end
    /\ \A b, c \in blocks : b # c => EndOf(heap, b) <= c \/ EndOf(heap, c) <= b
    /\ heap.heap_start \in blocks
    /\ \A b \in blocks : EndOf(heap, b) = heap.heap_end \/ EndOf(heap, b) \in blocks
    /\ SumBytes(heap, all) = heap.heap_bytes

\* C2: in every such state the blocks reachable through the two lists occupy
\* pairwise disjoint ranges [b, b + overhead + size), each inside
\* [heap_start, heap_end), and together they cover the region exactly.
C2_Tiling == Tiling(Range(AvailSeq) \cup Range(UsedSeq), AvailSeq \o UsedSeq)

\* A release has just merged blocks, and blocks of both kinds remain.
C2_Witness ==
    /\ last.op = "free"
    /\ Len(PhysSeq(heap)) < Len(PhysSeq(pre))
    /\ Len(UsedSeq) >= 2
    /\ Len(AvailSeq) >= 2

\* ------------------------------------------------------------------ C3
FirstFitChosen(us, b) ==
    IF b = NULL
    THEN last.ret = NULL
    ELSE /\ last.ret = b + HEAD_SIZE
         /\ StateOf(heap, b) = EL_USED
         /\ b \in Range(us)

\* C3: el_malloc(n) is first-fit in list order: when some member of the
\* available list has size >= n + overhead, the block handed out is the one
\* of them closest to the front of the list, whatever the sizes of the
\* blocks behind it; it returns NULL exactly when no member has
\* size >= n + overhead.
C3_FirstFit ==
    last.op = "malloc" => FirstFitChosen(UsedSeq, FirstFit(pre, PreAvailSeq, last.arg))

\* The available list holds blocks of 128, 64 and 256 bytes, front to back,
\* and el_malloc(50) has taken the 128-byte block.
C3_Witness ==
    /\ last.op = "malloc"
    /\ last.arg = 50
    /\ SizesOf(pre, PreAvailSeq) = <<128, 64, 256>>
    /\ last.ret = PreAvailSeq[1] + HEAD_SIZE

\* ------------------------------------------------------------------ C4
MallocEffect(av, us, pav, pus, a, n, s, rem) ==
    /\ a \in Range(pav)
    /\ SizeOf(heap, a) = n
    /\ StateOf(heap, a) = EL_USED
    /\ us = <<a>> \o pus
    /\ SizeOf(heap, rem) = s - n - EL_BLOCK_OVERHEAD
    /\ StateOf(heap, rem) = EL_AVAILABLE
    /\ av = <<rem>> \o Without(pav, a)
    /\ \A b \in (Range(pav) \cup Range(pus)) \ {a} :
          /\ SizeOf(heap, b) = SizeOf(pre, b)
          /\ StateOf(heap, b) = StateOf(pre, b)

\* C4: when el_malloc(n) succeeds on a block at address a of payload size s,
\* afterwards the block at a has size n, state EL_USED and is the front of
\* the used list; a new block at a + overhead + n has size s - n - overhead,
\* state EL_AVAILABLE and is the front of the available list; the pointer
\* returned is a + sizeof(header); every other block keeps its size, its
\* state and its place relative to the others in its list.
C4_MallocEffect ==
    (last.op = "malloc" /\ last.ret # NULL) =>
        /\ last.ret = last.found + HEAD_SIZE
        /\ MallocEffect(AvailSeq, UsedSeq, PreAvailSeq, PreUsedSeq,
                        last.found, last.arg, SizeOf(pre, last.found),
                        last.found + EL_BLOCK_OVERHEAD + last.arg)

\* A successful el_malloc that took a block from behind the front of the
\* available list while other blocks were in use.
C4_Witness ==
    /\ last.op = "malloc"
    /\ last.ret # NULL
    /\ Len(PreAvailSeq) >= 2
    /\ Len(PreUsedSeq) >= 1
    /\ last.found # PreAvailSeq[1]

\* ------------------------------------------------------------------ C5
\* C5: an el_malloc(n) that returns NULL leaves el_ctl and the memory of the
\* region exactly as they were before the call: both lists' members, order,
\* length and bytes and every block's size and state.  On a fresh heap this
\* is the case of n = (heap_bytes - overhead) + 1.
C5_FailureLeavesHeap ==
    /\ (last.op = "malloc" /\ last.ret = NULL) => heap = pre
    /\ (last.op = "malloc" /\ calls = 1
            /\ last.arg = EL_HEAP_INITIAL_SIZE - EL_BLOCK_OVERHEAD + 1)
        => (last.ret = NULL /\ heap = pre)

\* el_malloc(U + 1) has returned NULL on the freshly initialized heap.
C5_Witness ==
    /\ last.op = "malloc"
    /\ calls = 1
    /\ last.arg = EL_HEAP_INITIAL_SIZE - EL_BLOCK_OVERHEAD + 1
    /\ last.ret = NULL
    /\ pre = el_init(EL_HEAP_INITIAL_SIZE).h

\* ------------------------------------------------------------------ C6
\* The released block B has an available block A right below it and an
\* available block C right above it.
BothNeighboursAvailable(h, B) ==
    /\ el_block_below(h, B) # NULL
    /\ el_block_above(h, B) # NULL
    /\ StateOf(h, el_block_below(h, B)) = EL_AVAILABLE
    /\ StateOf(h, el_block_above(h, B)) = EL_AVAILABLE

CoalescedBoth(av, us, A, B, C, total) ==
    /\ SizeOf(heap, A) = total
    /\ StateOf(heap, A) = EL_AVAILABLE
    /\ RdFoot(heap, el_get_footer(heap, A)) = total
    /\ el_get_footer(heap, A) = el_get_footer(pre, C)
    /\ el_get_header(heap, el_get_footer(heap, A)) = A
    /\ av # <<>>
    /\ av[1] = A
    /\ Count(av, A) = 1
    /\ {B, C} \cap (Range(av) \cup Range(us)) = {}

\* C6: el_free(p) of a used block B whose lower neighbour A and upper
\* neighbour C are both available leaves one available block at A's address
\* of size A.size + B.size + C.size + 2 * overhead, whose header and footer
\* both carry that size, linked once in the available list, at its front;
\* B and C are members of no list any more.
C6_CoalesceBoth ==
    (last.op = "free" /\ BothNeighboursAvailable(pre, last.arg - HEAD_SIZE)) =>
        CoalescedBoth(AvailSeq, UsedSeq,
                      el_block_below(pre, last.arg - HEAD_SIZE),
                      last.arg - HEAD_SIZE,
                      el_block_above(pre, last.arg - HEAD_SIZE),
                      SizeOf(pre, el_block_below(pre, last.arg - HEAD_SIZE))
                        + SizeOf(pre, last.arg - HEAD_SIZE)
                        + SizeOf(pre, el_block_above(pre, last.arg - HEAD_SIZE))
                        + 2 * EL_BLOCK_OVERHEAD)

\* A block between two available blocks has been released while another
\* block stays in use.
C6_Witness ==
    /\ last.op = "free"
    /\ BothNeighboursAvailable(pre, last.arg - HEAD_SIZE)
    /\ Len(UsedSeq) >= 1

\* ------------------------------------------------------------------ C7
RoundTrip(av, us, pav, pus) ==
    /\ heap.avail.bytes = pre.avail.bytes
    /\ heap.avail.length = pre.avail.length
    /\ {<<b, SizeOf(heap, b)>> : b \in Range(av)} = {<<b, SizeOf(pre, b)>> : b \in Range(pav)}
    /\ us = pus
    /\ heap.used = pre.used
    /\ \A b \in Range(us) : RdHead(heap, b) = RdHead(pre, b)

\* C7: when p = el_malloc(n) succeeds and el_free(p) follows at once, the
\* available list's bytes and length, the set of (address, size) pairs of
\* the available blocks, and the whole used list are as before el_malloc.
C7_RoundTrip ==
    last.op = "malloc_free" => RoundTrip(AvailSeq, UsedSeq, PreAvailSeq, PreUsedSeq)

\* A round trip through a block behind the front of the available list,
\* with blocks in use: the list order changed, its content did not.
C7_Witness ==
    /\ last.op = "malloc_free"
    /\ Len(PreUsedSeq) >= 1
    /\ Len(PreAvailSeq) >= 2
    /\ AvailSeq # PreAvailSeq

\* ------------------------------------------------------------------ C8
\* el_malloc(n) found a block of exactly n + overhead bytes.
ExactFit ==
    /\ last.op = "malloc"
    /\ last.found # NULL
    /\ SizeOf(pre, last.found) = last.arg + EL_BLOCK_OVERHEAD

\* C8 as stated: el_malloc(n) on a found block of exactly n + overhead bytes
\* carves no remainder block out of it.
C8_Original ==
    ExactFit => (last.split = NULL /\ Len(PhysSeq(heap)) = Len(PhysSeq(pre)))

ExactFitSplit(av, ph, pph) ==
    /\ last.ret = last.found + HEAD_SIZE
    /\ SizeOf(heap, last.found) = last.arg
    /\ last.split = last.found + EL_BLOCK_OVERHEAD + last.arg
    /\ SizeOf(heap, last.split) = 0
    /\ RdFoot(heap, el_get_footer(heap, last.split)) = 0
    /\ StateOf(heap, last.split) = EL_AVAILABLE
    /\ av # <<>>
    /\ av[1] = last.split
    /\ Len(ph) = Len(pph) + 1

\* C8, amended: el_malloc(n) on a found block of exactly n + overhead bytes
\* does split it: the block shrinks to n bytes and is handed out, and a
\* remainder block of payload size 0 (a header and a footer only) is carved
\* out above it and put at the front of the available list.
C8_ExactFitSplits ==
    ExactFit => ExactFitSplit(AvailSeq, PhysSeq(heap), PhysSeq(pre))

\* An exact fit has happened and left a remainder of size 0 in the list.
C8_Witness ==
    /\ ExactFit
    /\ last.split # NULL
    /\ SizeOf(heap, last.split) = 0
    /\ last.split \in Range(AvailSeq)

\* ------------------------------------------------------------------ C9
\* el_malloc found a block and el_split_block then returned NULL for it.
SplitFailed ==
    /\ last.op = "malloc"
    /\ last.found # NULL
    /\ last.split = NULL

Front64Request50(pav) ==
    /\ last.op = "malloc"
    /\ last.arg = 50
    /\ pav # <<>>
    /\ SizeOf(pre, pav[1]) = 64

\* C10 as stated: with a 64-byte block at the front of the available list,
\* el_malloc(50) succeeds using that block.
C10_Original ==
    Front64Request50(PreAvailSeq) => last.ret = PreAvailSeq[1] + HEAD_SIZE

Skips64(av, pav) ==
    /\ last.ret # pav[1] + HEAD_SIZE
    /\ pav[1] \in Range(av)
    /\ SizeOf(heap, pav[1]) = 64
    /\ StateOf(heap, pav[1]) = EL_AVAILABLE
    /\ (last.ret = NULL) <=> (\A b \in Range(pav) : SizeOf(pre, b) < 50 + EL_BLOCK_OVERHEAD)
    /\ last.ret # NULL => SizeOf(pre, last.ret - HEAD_SIZE) >= 50 + EL_BLOCK_OVERHEAD

\* C10, amended: a 64-byte block does not fit a request of 50 bytes, which
\* needs size >= 50 + overhead = 90: with a 64-byte block at the front of
\* the available list, el_malloc(50) leaves that block available with its
\* size, and succeeds exactly when a block of at least 90 bytes is further
\* back in the list, using that one.
C10_64TooSmallFor50 ==
    Front64Request50(PreAvailSeq) => Skips64(AvailSeq, PreAvailSeq)

\* el_malloc(50) has passed over the 64-byte block at the front and taken a
\* block behind it.
C10_Witness ==
    /\ Front64Request50(PreAvailSeq)
    /\ last.ret # NULL
    /\ PreAvailSeq[1] \in Range(AvailSeq)

\* ------------------------------------------------------------------ C11
\* Every header stored inside the region.
HeadersInRegion(h) ==
    {a \in DOMAIN h.head : h.heap_start <= a /\ a < h.heap_end}

\* C11: for every request n of the size_t range, also one for which
\* n + overhead wraps, el_malloc(n) returns NULL whenever n is larger than
\* the size of every available block, and no block is ever created whose
\* range, header through footer, leaves [heap_start, heap_end).
C11_WideRequestRefused ==
    /\ (/\ last.op \in {"malloc", "fault"}
        /\ \A b \in Range(PreAvailSeq) : last.arg > SizeOf(pre, b))
       => (last.op = "malloc" /\ last.ret = NULL)
    /\ \A b \in HeadersInRegion(heap) : EndOf(heap, b) <= heap.heap_end

\* ------------------------------------------------------------------ C12
InitResult(av, us, size) ==
    /\ last.ret = 0
    /\ us = <<>>
    /\ heap.used = [length |-> 0, bytes |-> 0]
    /\ av = <<heap.heap_start>>
    /\ heap.avail.length = 1
    /\ StateOf(heap, heap.heap_start) = EL_AVAILABLE
    /\ SizeOf(heap, heap.heap_start) = size
    /\ RdFoot(heap, heap.heap_end - FOOT_SIZE) = size
    /\ el_get_footer(heap, heap.heap_start) = heap.heap_end - FOOT_SIZE
    /\ heap.avail.bytes = heap.heap_bytes

\* C12: el_init with a configured region size below one block's overhead
\* reports failure; otherwise it returns 0 and leaves the used list empty
\* (length 0, bytes 0) and the available list with exactly one block, at
\* heap_start, of state EL_AVAILABLE, whose header and footer size is
\* heap_bytes - overhead, so that the available list's bytes is heap_bytes.
C12_InitResult ==
    last.op = "init" =>
        IF heap.heap_bytes < EL_BLOCK_OVERHEAD
        THEN last.ret # 0
        ELSE InitResult(AvailSeq, UsedSeq, heap.heap_bytes - EL_BLOCK_OVERHEAD)

\* el_init has succeeded on the smallest region it accepts, one block's
\* overhead: the first block has no payload.
C12_Witness ==
    /\ last.op = "init"
    /\ last.arg = EL_BLOCK_OVERHEAD
    /\ last.ret = 0
    /\ SizeOf(heap, heap.heap_start) = 0
    /\ AvailSeq = <<heap.heap_start>>

\* ------------------------------------------------------------------ C13
HeaderFooterAgree(blocks) ==
    \A b \in blocks :
        /\ RdFoot(heap, el_get_footer(heap, b)) = SizeOf(heap, b)
        /\ el_get_header(heap, el_get_footer(heap, b)) = b

\* C13: in every state between calls, for every block reachable through
\* either list, the size in its footer equals the size in its header and
\* el_get_header(el_get_footer(head)) = head; so for the shrunk block and
\* the remainder after a split and for the surviving block after a merge.
C13_HeaderFooterAgree == HeaderFooterAgree(Range(AvailSeq) \cup Range(UsedSeq))

\* A release has merged the released block into the block below it: the
\* survivor, at a lower address, is at the front of the available list and
\* reaches beyond the released block, while blocks shrunk by earlier splits
\* are still in use.
C13_Witness ==
    /\ last.op = "free"
    /\ Len(UsedSeq) >= 2
    /\ AvailSeq # <<>>
    /\ AvailSeq[1] < last.arg - HEAD_SIZE
    /\ EndOf(heap, AvailSeq[1]) > last.arg
    /\ RdFoot(heap, el_get_footer(heap, AvailSeq[1])) = SizeOf(heap, AvailSeq[1])

\* ------------------------------------------------------------------ C14
\* Each physically adjacent neighbour of block B is in use, or there is none.
NoNeighbourAvailable(h, B) ==
    /\ el_block_below(h, B) = NULL \/ StateOf(h, el_block_below(h, B)) = EL_USED
    /\ el_block_above(h, B) = NULL \/ StateOf(h, el_block_above(h, B)) = EL_USED

OnlyMoved(av, us, pav, pus, ph, pph, B) ==
    /\ B \in Range(pus)
    /\ us = Without(pus, B)
    /\ av = <<B>> \o pav
    /\ StateOf(heap, B) = EL_AVAILABLE
    /\ SizeOf(heap, B) = SizeOf(pre, B)
    /\ \A b \in (Range(pav) \cup Range(pus)) \ {B} :
          /\ SizeOf(heap, b) = SizeOf(pre, b)
          /\ StateOf(heap, b) = StateOf(pre, b)
    /\ ph = pph

\* C14: el_free(p) of a used block whose physically adjacent neighbours are
\* each in use or absent only moves that block: it leaves the used list,
\* gets state EL_AVAILABLE and becomes the front of the available list with
\* its size unchanged; every other block keeps its size, its state and its
\* place relative to the others in its list, and the blocks are as many as
\* before, at the same addresses.
C14_FreeOnlyMoves ==
    (last.op = "free" /\ NoNeighbourAvailable(pre, last.arg - HEAD_SIZE)) =>
        OnlyMoved(AvailSeq, UsedSeq, PreAvailSeq, PreUsedSeq,
                  PhysSeq(heap), PhysSeq(pre), last.arg - HEAD_SIZE)

\* A block between two blocks in use has been released.
C14_Witness ==
    /\ last.op = "free"
    /\ el_block_below(pre, last.arg - HEAD_SIZE) # NULL
    /\ el_block_above(pre, last.arg - HEAD_SIZE) # NULL
    /\ StateOf(pre, el_block_below(pre, last.arg - HEAD_SIZE)) = EL_USED
    /\ StateOf(pre, el_block_above(pre, last.arg - HEAD_SIZE)) = EL_USED
    /\ AvailSeq[1] = last.arg - HEAD_SIZE

\* ------------------------------------------------------------------ C15
\* C15 as stated: when el_free merges the released block with both its lower
\* and its upper available neighbour, the available list's length after the
\* call is 2 less than its length right before the call.
C15_Original ==
    (last.op = "free" /\ BothNeighboursAvailable(pre, last.arg - HEAD_SIZE)) =>
        heap.avail.length = pre.avail.length - 2

CoalesceCounts(av, us, pav, pus) ==
    /\ heap.avail.length = pre.avail.length - 1
    /\ Len(av) = Len(pav) - 1
    /\ heap.used.length = pre.used.length - 1
    /\ Len(av) + Len(us) = Len(pav) + Len(pus) - 2

\* C15, amended: when el_free merges the released block with both its lower
\* and its upper available neighbour, the available list's length after the
\* call is 1 less than its length right before the call (it holds the two
\* neighbours before and the one merged block after); the used list loses
\* one block and the heap has two blocks fewer.
C15_CoalesceLength ==
    (last.op = "free" /\ BothNeighboursAvailable(pre, last.arg - HEAD_SIZE)) =>
        CoalesceCounts(AvailSeq, UsedSeq, PreAvailSeq, PreUsedSeq)

\* A release between two available neighbours, with a third available block
\* elsewhere: the list goes from three blocks to two.
C15_Witness ==
    /\ last.op = "free"
    /\ BothNeighboursAvailable(pre, last.arg - HEAD_SIZE)
    /\ pre.avail.length = 3
    /\ heap.avail.length = 2

\* ------------------------------------------------------------------ C16
Neighbours(blocks) ==
    \A b \in blocks :
        /\ IF EndOf(heap, b) >= heap.heap_end
           THEN el_block_above(heap, b) = NULL
           ELSE /\ el_block_above(heap, b) = EndOf(heap, b)
                /\ el_block_above(heap, b) \in blocks
                /\ el_block_below(heap, el_block_above(heap, b)) = b
        /\ IF b = heap.heap_start
           THEN el_block_below(heap, b) = NULL
           ELSE /\ el_block_below(heap, b) \in blocks
                /\ EndOf(heap, el_block_below(heap, b)) = b

\* C16: for every block b of a reachable state, el_block_above(b) is the
\* block whose header starts at b + overhead + b.size, or NULL when that
\* address is >= heap_end; el_block_below(b) is NULL when b is at heap_start
\* and otherwise the block whose footer ends right at b's header; and when
\* el_block_above(b) is not NULL, el_block_below(el_block_above(b)) = b.
\* (Both are operators on the state here: they read it and return a value.)
C16_Neighbours == Neighbours(Range(AvailSeq) \cup Range(UsedSeq))

\* Four blocks or more after a release that merged the released block into
\* the block at heap_start; the second block from heap_start has a block on
\* each side.
C16_Witness ==
    /\ last.op = "free"
    /\ Len(PhysSeq(heap)) >= 4
    /\ heap.heap_start < last.arg - HEAD_SIZE
    /\ EndOf(heap, heap.heap_start) > last.arg
    /\ el_block_below(heap, PhysSeq(heap)[2]) = heap.heap_start
    /\ el_block_above(heap, PhysSeq(heap)[2]) = PhysSeq(heap)[3]

\* ------------------------------------------------------------------ C17
NoAdjacentAvailable(ph) ==
    \A i \in 1 .. Len(ph) - 1 :
        ~(StateOf(heap, ph[i]) = EL_AVAILABLE /\ StateOf(heap, ph[i + 1]) = EL_AVAILABLE)

\* C17: after el_init and after every completed el_malloc or el_free, no two
\* physically adjacent blocks are both available: the lower and the upper
\* neighbour of an available block are in use or absent.
C17_NoAdjacentAvailable == NoAdjacentAvailable(PhysSeq(heap))

MergedBetweenUsed(ph, b) ==
    \E i \in 2 .. Len(ph) - 1 :
        /\ ph[i] = b
        /\ StateOf(heap, ph[i - 1]) = EL_USED
        /\ StateOf(heap, ph[i + 1]) = EL_USED

\* A release has merged the released block into the block below it, and
\* the merged block lies between two blocks in use.
C17_Witness ==
    /\ last.op = "free"
    /\ AvailSeq # <<>>
    /\ AvailSeq[1] < last.arg - HEAD_SIZE
    /\ EndOf(heap, AvailSeq[1]) > last.arg
    /\ MergedBetweenUsed(PhysSeq(heap), AvailSeq[1])

\* ------------------------------------------------------------------ C18
FreshLayout(av, us) ==
    /\ us = <<>>
    /\ heap.used = [length |-> 0, bytes |-> 0]
    /\ av = <<heap.heap_start>>
    /\ heap.avail = [length |-> 1, bytes |-> heap.heap_bytes]
    /\ SizeOf(heap, heap.heap_start) = heap.heap_bytes - EL_BLOCK_OVERHEAD
    /\ StateOf(heap, heap.heap_start) = EL_AVAILABLE
    /\ RdFoot(heap, heap.heap_end - FOOT_SIZE) = heap.heap_bytes - EL_BLOCK_OVERHEAD
    /\ PhysSeq(heap) = PhysSeq(el_init(EL_HEAP_INITIAL_SIZE).h)

\* C18: from any reachable state, once every outstanding allocation has been
\* released, in any order, the used list is empty and the available list
\* holds exactly one block, at heap_start, of size heap_bytes - overhead:
\* the block layout is that of the freshly initialized heap.
C18_AllReleased ==
    live = {} => FreshLayout(AvailSeq, UsedSeq)

\* Six calls or more, and the last outstanding allocation has been released;
\* it was not the block at heap_start, so the blocks below it had been
\* released before it: the releases were not in stack order.
C18_Witness ==
    /\ last.op = "free"
    /\ live = {}
    /\ calls >= 6
    /\ last.arg - HEAD_SIZE > heap.heap_start
    /\ heap.avail.length = 1

\* ------------------------------------------------------------------ C19
\* C19: after el_init the available list is never empty in a state reached
\* by el_malloc / el_free calls: every successful el_malloc leaves an
\* available remainder block (of size 0 at the least), so the used list's
\* bytes never exceed heap_bytes - overhead, and the largest request that
\* can ever succeed is heap_bytes - 2 * overhead.
C19_AvailNeverEmpty ==
    /\ last.op \in {"init", "malloc", "free", "fault"} =>
          /\ ListSeq(heap, "avail") # <<>>
          /\ heap.avail.length >= 1
          /\ heap.used.bytes <= heap.heap_bytes - EL_BLOCK_OVERHEAD
    /\ (last.op = "malloc" /\ last.ret # NULL) =>
          /\ last.arg <= heap.heap_bytes - 2 * EL_BLOCK_OVERHEAD
          /\ last.split # NULL
          /\ last.split \in Range(ListSeq(heap, "avail"))
          /\ StateOf(heap, last.split) = EL_AVAILABLE

====
